---- MODULE Spec2Model ----
(***************************************************************************)
(* Model of custom_components/indego/__init__.py: async_setup and the      *)
(* IndegoHub scheduler (login retry, initial update, the long-poll state   *)
(* loop, the 5-minute and 60-minute batches, shutdown), the two services,  *)
(* the entity table the handlers write, and the two icon functions.        *)
(*                                                                         *)
(* Every "await" of the source is a point where the event loop may run     *)
(* something else; the code between two awaits is one atomic action.       *)
(* The API client (pyIndego) answers every call with one of Outcomes.      *)
(*                                                                         *)
(* Spec and FairSpec are the whole scheduler under every answer of the     *)
(* API. The other specifications start from the same hub, record some of   *)
(* the entity slots, and let the API answer from a smaller set: the state  *)
(* loop (StateLoopSpec), the services (ServiceSpec, SchedulerSpec), the    *)
(* 5-minute batch (BatchSpec, AlertsSpec), the icon functions (IconSpec).  *)
(***************************************************************************)
EXTENDS Integers, Sequences, FiniteSets, TLC

\* ---------------------------------------------------------------------------
\* Program constants
LoginRetryDelay == 60
Refresh5mInterval == 300
RetryBase == 60
RandMax == 30
Refresh60mInterval == 3600

\* Values of random.randint(0, RandMax) the model draws: both ends of the range.
RandDraws == {0, RandMax}

\* ---------------------------------------------------------------------------
\* Exceptions of the API client and their class hierarchy (aiohttp):
\* TooManyRedirects is a subclass of ClientResponseError.
Exceptions == {"ServerTimeoutError", "TooManyRedirects", "ClientResponseError"}

Outcomes == {"ok"} \cup Exceptions

IsInstance(exc, cls) ==
    \/ exc = cls
    \/ exc = "TooManyRedirects" /\ cls = "ClientResponseError"

\* a handler that names ServerTimeoutError only
IsTimeoutServerOnly(exc) == IsInstance(exc, "ServerTimeoutError")

IsTimeout(exc) ==
    IsInstance(exc, "ServerTimeoutError") \/ IsInstance(exc, "TooManyRedirects")

\* a create_task that would also run a coroutine function handed to it
CreateTaskAny(target) == "task"

\* hass.async_create_task(target): the event loop's create_task accepts a
\* coroutine object only and raises TypeError for anything else.

CreateTask(target) == IF target = "coroutine" THEN "task" ELSE "TypeError"

\* ---------------------------------------------------------------------------
VARIABLES
    hass,             \* host lifecycle: "starting", "running", "stopping"
    setup,            \* async_setup: "login" (awaiting login), "true", "false"
    startedListener,  \* callback listening once for EVENT_HOMEASSISTANT_STARTED
    stopListener,     \* async_shutdown listens once for EVENT_HOMEASSISTANT_STOP
    platforms,        \* the sensor platforms were handed to discovery
    services,         \* the two services are registered
    login,            \* the _login coroutine: "idle", "awaiting", "returned", "raised"
    loginTimers,      \* pending async_call_later timers for _login (their delays)
    initial,          \* _initial_update: "none", "gathering", "returned", "raised"
    shutdownFlag,     \* self._shutdown
    shutdown,         \* async_shutdown: "idle", "await_task", "done", "raised"
    awaitedTask,      \* state of the task async_shutdown awaits
    closed,           \* indego.close() was called
    stateTask,        \* the task self.refresh_state_task refers to
    online,           \* self.indego._online
    timers5,          \* pending timers for refresh_5m: records [id, delay]
    remover5,         \* self.refresh_5m_remover: id of the timer it cancels, 0 = None
    runs5,            \* refresh_5m coroutines in flight
    timers60,         \* pending timers for refresh_60m
    remover60,        \* self.refresh_60m_remover
    runs60,           \* refresh_60m coroutines in flight
    entities,         \* self.entities: state and attributes, one value per recorded slot
    sendCommand,      \* calls of the send-command service in flight
    smartMowing,      \* calls of the set-mowing-mode service in flight
    icon              \* the last call of an icon function and its result

setupVars == <<setup, startedListener, stopListener, platforms, services>>
loginVars == <<login, loginTimers>>
shutdownVars == <<shutdownFlag, shutdown, awaitedTask, closed>>
stateVars == <<stateTask, online>>
vars5 == <<timers5, remover5, runs5>>
vars60 == <<timers60, remover60, runs60>>
serviceVars == <<sendCommand, smartMowing>>

\* what the scheduling handlers neither read nor write
auxVars == <<serviceVars, icon>>

vars == <<hass, setupVars, loginVars, initial, shutdownVars, stateVars, vars5, vars60,
          entities, auxVars>>

\* ---------------------------------------------------------------------------
\* Tasks, timers, runs

\* a task: what it awaits or how it ended, whether cancel() was called on it,
\* the exception it ended with, and which task object it is
NoTask == [status |-> "none", cancel |-> FALSE, exc |-> "None", id |-> 0]

\* a task created from async_refresh_state(): it awaits the long poll; it is
\* another object than the task refresh_state_task referred to before
NewStateTask(old) ==
    [status |-> "longpoll", cancel |-> FALSE, exc |-> "None",
     id |-> IF old.id = 1 THEN 2 ELSE 1]

TaskPending(t) == t.status \in {"longpoll", "opdata"}

TimerIds(timers) == {t.id : t \in timers}

\* the handle of a newly armed timer: distinct from every pending timer and
\* from the one the remover still holds
NewTimerId(timers, remover) ==
    CHOOSE i \in 1..(Cardinality(timers) + 2) :
        /\ i \notin TimerIds(timers) \cup {remover}
        /\ \A j \in 1..(i - 1) : j \in TimerIds(timers) \cup {remover}

\* async_call_later(hass, delay, action) on a loop's timer set
ArmTimer(timers, remover, delay) ==
    timers \cup {[id |-> NewTimerId(timers, remover), delay |-> delay]}

\* calling the function async_call_later returned cancels that one timer
CallRemover(timers, remover) == {t \in timers : t.id # remover}

Updates5m == 1..4   \* generic data, alerts, last completed mow, next mow

NewRun5(via) == [via |-> via]

NewRun60(via) == [via |-> via]

RemoveAt(s, k) == [i \in 1..(Len(s) - 1) |-> IF i < k THEN s[i] ELSE s[i + 1]]

\* ---------------------------------------------------------------------------
\* The entity table (entity_definitions, create_entities) and what each update
\* method writes to it. A slot is the state of an entity or one attribute of
\* it, named "entity.state" or "entity.attribute". A specification records
\* the slots in the domain of entities; the hub only ever writes the table, so
\* the slots left out have no effect on the ones recorded.

None == <<>>

Some(v) == <<v>>

\* the entity classes hold what is assigned: .state = v and add_attribute({..})
\* replace the values of the slots named and keep the others
SetEntities(ent, writes) ==
    [s \in DOMAIN ent |-> IF s \in DOMAIN writes THEN writes[s] ELSE ent[s]]

create_entities(slots) == [s \in slots |-> None]

\* the answers that differ for the table: one stands for all when none of the
\* slots whose value is taken from the answer is recorded
Answers(all, slots) ==
    IF slots \cap DOMAIN entities = {} THEN {CHOOSE a \in all : TRUE} ELSE all

\* indego.state_description, indego.state_description_detail: the client's
\* texts for a state number
StateDescription(state) == [description_of |-> state]

StateDescriptionDetail(state) == [detail_of |-> state]

\* lines 460-490 of _update_state, for the answer with state number state
UpdateStateWrites(state) ==
    ("mower_state.state" :> Some(StateDescription(state)))
    @@ ("mower_state_detail.state" :> Some(StateDescriptionDetail(state)))
    @@ ("lawn_mowed.state" :> Some("state.mowed"))
    @@ ("runtime.state" :> Some("state.runtime.total.operate"))
    @@ ("mower_state.last_updated" :> Some("utcnow"))
    @@ ("mower_state_detail.last_updated" :> Some("utcnow"))
    @@ ("mower_state_detail.state_number" :> Some(state))
    @@ ("mower_state_detail.state_description" :> Some(StateDescriptionDetail(state)))
    @@ ("lawn_mowed.last_updated" :> Some("utcnow"))
    @@ ("lawn_mowed.last_session_operation_min" :> Some("state.runtime.session.operate"))
    @@ ("lawn_mowed.last_session_cut_min" :> Some("state.runtime.session.cut"))
    @@ ("lawn_mowed.last_session_charge_min" :> Some("state.runtime.session.charge"))
    @@ ("runtime.total_operation_time_h" :> Some("state.runtime.total.operate"))
    @@ ("runtime.total_mowing_time_h" :> Some("state.runtime.total.cut"))
    @@ ("runtime.total_charging_time_h" :> Some("state.runtime.total.charge"))

\* the slots above whose value differs with the state number
StateNumberSlots ==
    {"mower_state.state", "mower_state_detail.state", "mower_state_detail.state_number",
     "mower_state_detail.state_description"}

\* battery.percent_adjusted in the answers of update_operating_data
BatteryPercents == {0, 100}

\* lines 438-453 of _update_operating_data
OperatingDataWrites(on, percent) ==
    ("online.state" :> Some(on))
    @@ ("battery.state" :> Some(percent))
    @@ ("battery.last_updated" :> Some("utcnow"))
    @@ ("battery.voltage_V" :> Some("battery.voltage"))
    @@ ("battery.discharge_Ah" :> Some("battery.discharge"))
    @@ ("battery.cycles" :> Some("battery.cycles"))
    @@ ("battery.battery_temp" :> Some("battery.battery_temp"))
    @@ ("battery.ambient_temp" :> Some("battery.ambient_temp"))

\* the slot above whose value differs with the percentage
PercentSlots == {"battery.state"}

\* generic_data.mowing_mode_description in the answers of update_generic_data
MowingModes == {"calendar", "smart"}

\* lines 495-509 of _update_generic_data
GenericDataWrites(mode) ==
    ("mowing_mode.state" :> Some(mode))
    @@ ("mower_state.model" :> Some("generic_data.model_description"))
    @@ ("mower_state.serial" :> Some("generic_data.alm_sn"))
    @@ ("mower_state.firmware" :> Some("generic_data.alm_firmware_version"))
    @@ ("mower_state_detail.model_number" :> Some("generic_data.bareToolnumber"))

\* the slot above whose value differs with the mode
ModeSlots == {"mowing_mode.state"}

\* the most alerts an answer of update_alerts holds
MaxAlerts == 1

AlertCounts == 0..MaxAlerts

\* an _update_alerts whose binary sensor is on from a count of 0
AlertsWritesFromZero(alerts_count) ==
    ("mower_alert.state" :> Some(alerts_count))
    @@ ("alert.state" :> Some(alerts_count >= 0))
    @@ ("alert.alerts_count" :> Some(alerts_count))
    @@ ("alert.alert_details" :> Some("str(indego.alerts)"))

\* lines 514-522 of _update_alerts
AlertsWrites(alerts_count) ==
    ("mower_alert.state" :> Some(alerts_count))
    @@ ("alert.state" :> Some(alerts_count > 0))
    @@ ("alert.alerts_count" :> Some(alerts_count))
    @@ ("alert.alert_details" :> Some("str(indego.alerts)"))

\* the slots above whose value differs with the count
AlertCountSlots == {"mower_alert.state", "alert.state", "alert.alerts_count"}

\* lines 531-534 of _update_last_completed_mow
LastCompletedMowWrites ==
    ("last_completed.state" :> Some("indego.last_completed_mow"))
    @@ ("lawn_mowed.last_completed_mow" :> Some("indego.last_completed_mow"))

\* lines 538-540 of _update_next_mow
NextMowWrites ==
    ("next_mow.state" :> Some("indego.next_mow"))
    @@ ("lawn_mowed.next_mow" :> Some("indego.next_mow"))

\* line 527 of _update_updates_available
UpdatesAvailableWrites(update_available) ==
    "update_available.state" :> Some(update_available)

UpdatesAvailableSlots == {"update_available.state"}

\* the table after an update that was answered with outcome
AfterUpdate(ent, outcome, writes) ==
    IF outcome = "ok" THEN SetEntities(ent, writes) ELSE ent

\* ---------------------------------------------------------------------------
\* Python values the icon functions are called with, and what the functions
\* do with them. A value has its type and, by its type, a number, the
\* sequence of the characters of a str, or a truth value.

NoneValue == [type |-> "NoneType", n |-> 0, chars |-> <<>>, b |-> FALSE]

IntValue(n) == [NoneValue EXCEPT !.type = "int", !.n = n]

StrValue(chars) == [NoneValue EXCEPT !.type = "str", !.chars = chars]

BoolValue(b) == [NoneValue EXCEPT !.type = "bool", !.b = b]

STATE_UNKNOWN == StrValue(<<"u", "n", "k", "n", "o", "w", "n">>)

STATE_ON == StrValue(<<"o", "n">>)

STATE_OFF == StrValue(<<"o", "f", "f">>)

Digits == <<"0", "1", "2", "3", "4", "5", "6", "7", "8", "9">>

IsDigit(c) == \E d \in 1..Len(Digits) : Digits[d] = c

DigitValue(c) == (CHOOSE d \in 1..Len(Digits) : Digits[d] = c) - 1

\* the number a sequence of decimal digits writes
RECURSIVE ParseDigits(_)
ParseDigits(chars) ==
    IF chars = <<>> THEN 0
    ELSE ParseDigits(SubSeq(chars, 1, Len(chars) - 1)) * Len(Digits)
             + DigitValue(chars[Len(chars)])

\* str(n) for n >= 0
RECURSIVE str(_)
str(n) ==
    IF n < Len(Digits) THEN <<Digits[n + 1]>>
    ELSE Append(str(n \div Len(Digits)), Digits[(n % Len(Digits)) + 1])

\* bool(x): the truth value an if tests
Truthy(x) ==
    CASE x.type = "int" -> x.n # 0
      [] x.type = "str" -> x.chars # <<>>
      [] x.type = "bool" -> x.b
      [] OTHER -> FALSE

\* int(x): the number, or the exception the conversion raises; of the strs,
\* those written in decimal digits alone are converted here
int(x) ==
    CASE x.type = "int" -> [raised |-> "None", v |-> x.n]
      [] x.type = "bool" -> [raised |-> "None", v |-> IF x.b THEN 1 ELSE 0]
      [] x.type = "str" ->
             IF x.chars # <<>> /\ \A i \in 1..Len(x.chars) : IsDigit(x.chars[i])
             THEN [raised |-> "None", v |-> ParseDigits(x.chars)]
             ELSE [raised |-> "ValueError", v |-> 0]
      [] OTHER -> [raised |-> "TypeError", v |-> 0]

\* x == y for the values above: a number never equals a str or None
PyEq(x, y) ==
    IF x.type \in {"int", "bool"} /\ y.type \in {"int", "bool"}
    THEN int(x).v = int(y).v
    ELSE x = y

Return(value) == [raised |-> "None", value |-> value]

Raise(exc) == [raised |-> exc, value |-> "None"]

FullBattery == 100

\* lines 93-101
FUNC_ICON_BATTERY(state) ==
    IF Truthy(state) /\ ~PyEq(state, STATE_UNKNOWN)
    THEN LET n == int(state) IN
         IF n.raised # "None" THEN Raise(n.raised)
         ELSE IF n.v = 0 THEN Return("mdi:battery-outline")
         ELSE IF n.v = FullBattery THEN Return("mdi:battery")
         ELSE Return("mdi:battery-" \o ToString(n.v - (n.v % 10)))
    ELSE Return("mdi:battery-50")

\* lines 104-108: int(state) is evaluated before the comparison with STATE_ON
FUNC_ICON_MOWER_ALERT(state) ==
    IF Truthy(state)
    THEN LET n == int(state) IN
         IF n.raised # "None" THEN Raise(n.raised)
         ELSE IF n.v > 0 \/ PyEq(state, STATE_ON) THEN Return("mdi:alert-outline")
         ELSE Return("mdi:check-circle-outline")
    ELSE Return("mdi:check-circle-outline")

\* an entity asks for its icon: CONF_ICON of its definition is called with
\* its state (lines 131, 167, 226)
IconReturns(func, result) ==
    /\ icon.func = func
    /\ icon.result = Return("pending")
    /\ icon' = [icon EXCEPT !.result = result]

\* no icon function is being called
NoIcon == [func |-> "none", state |-> NoneValue, result |-> Return("None")]

\* a call of an icon function that has not returned
IconCall(func, state) == [func |-> func, state |-> state, result |-> Return("pending")]

\* the states the battery entity's icon is asked for: a percentage as a number
\* or as its text, no state, the unknown state
BatteryStates ==
    {IntValue(p) : p \in 0..FullBattery}
        \cup {StrValue(str(p)) : p \in 0..FullBattery}
        \cup {NoneValue, STATE_UNKNOWN}

\* the states the alert entities' icon is asked for: a count as a number or
\* as its text, on and off, no state, the unknown and the empty state
AlertStates ==
    {IntValue(n) : n \in AlertCounts}
        \cup {StrValue(str(n)) : n \in AlertCounts}
        \cup {BoolValue(TRUE), BoolValue(FALSE), STATE_ON, STATE_OFF, STATE_UNKNOWN,
              StrValue(<<>>), NoneValue}

\* ---------------------------------------------------------------------------
\* the hub and the host after IndegoHub(...) was constructed in async_setup,
\* with the entity slots that are recorded
HubInit(slots) ==
    /\ hass = "starting"
    /\ setup = "login"
    /\ startedListener = "none"
    /\ stopListener = FALSE
    /\ platforms = FALSE
    /\ services = FALSE
    /\ login = "idle"
    /\ loginTimers = <<>>
    /\ initial = "none"
    /\ shutdownFlag = FALSE
    /\ shutdown = "idle"
    /\ awaitedTask = "none"
    /\ closed = FALSE
    /\ stateTask = NoTask
    /\ online = FALSE
    /\ timers5 = {}
    /\ remover5 = 0
    /\ runs5 = <<>>
    /\ timers60 = {}
    /\ remover60 = 0
    /\ runs60 = <<>>
    /\ entities = create_entities(slots)
    /\ sendCommand = [put |-> 0, refresh |-> 0]
    /\ smartMowing = [put |-> 0, refresh |-> 0]

InitRecording(slots) ==
    /\ HubInit(slots)
    /\ icon = NoIcon

Init == InitRecording({})

\* ---------------------------------------------------------------------------
\* _initial_update: create the state task, then gather refresh_5m and refresh_60m

\* a gather that would cancel the other awaitables when one raises
GatherCancelsSiblings(siblings) == SelectSeq(siblings, LAMBDA r : r.via # "gather")

\* asyncio.gather without return_exceptions: the first exception goes to the
\* awaiting coroutine, the other awaitables are not cancelled and keep running

GatherSiblingsAfterException(siblings) == siblings

GatherChildren(r5, r60) ==
    Len(SelectSeq(r5, LAMBDA r : r.via = "gather"))
        + Len(SelectSeq(r60, LAMBDA r : r.via = "gather"))

\* _initial_update after a gathered child returned: it returns with the last one
InitialAfterChild(via, r5, r60) ==
    IF initial = "gathering" /\ via = "gather" /\ GatherChildren(r5, r60) = 0
    THEN "returned" ELSE initial

InitialUpdateStart ==
    /\ initial' = "gathering"
    /\ stateTask' = IF CreateTask("coroutine") = "task" THEN NewStateTask(stateTask) ELSE stateTask
    /\ runs5' = Append(runs5, NewRun5("gather"))
    /\ runs60' = Append(runs60, NewRun60("gather"))
    /\ UNCHANGED <<online, timers5, remover5, timers60, remover60>>

\* ---------------------------------------------------------------------------
\* async_setup: the login and what follows it

\* a handler that logs the ClientResponseError and goes on, as _login does
SetupLoginResultGoesOn(outcome) ==
    IF outcome = "ok" THEN "proceed"
    ELSE IF IsInstance(outcome, "ClientResponseError") THEN "proceed"
    ELSE IF IsTimeout(outcome) THEN "retry"
    ELSE "raise"

\* lines 244-252: the try around the login; the except clauses in their order
SetupLoginResult(outcome) ==
    IF outcome = "ok" THEN "proceed"
    ELSE IF IsInstance(outcome, "ClientResponseError") THEN "false"
    ELSE IF IsTimeout(outcome) THEN "retry"
    ELSE "raise"

\* async_schedule_updates(retry_login): which callback waits for STARTED
async_schedule_updates(retry_login) ==
    /\ startedListener' = IF retry_login THEN "_login" ELSE "_initial_update"
    /\ stopListener' = TRUE

async_setup(outcome) ==
    /\ setup = "login"
    /\ LET r == SetupLoginResult(outcome) IN
         IF r \in {"proceed", "retry"}
         THEN /\ async_schedule_updates(r = "retry")
              /\ platforms' = TRUE
              /\ services' = TRUE
              /\ setup' = "true"
         ELSE /\ setup' = "false"
              /\ UNCHANGED <<startedListener, stopListener, platforms, services>>
    /\ UNCHANGED <<hass, loginVars, initial, shutdownVars, stateVars, vars5, vars60>>
    /\ UNCHANGED <<entities, auxVars>>

\* ---------------------------------------------------------------------------
\* _login: the deferred login

LoginRetry(outcome) ==
    IF outcome = "ok" THEN FALSE
    ELSE IF IsInstance(outcome, "ClientResponseError") THEN FALSE
    ELSE IsTimeout(outcome)

\* the finally clause of _login
LoginFinally(retry_login) ==
    IF retry_login
    THEN /\ loginTimers' = Append(loginTimers, LoginRetryDelay)
         /\ login' = "returned"
         /\ UNCHANGED <<initial, stateVars, vars5, vars60>>
    ELSE IF CreateTask("bound_method") = "task"
         THEN /\ InitialUpdateStart
              /\ login' = "returned"
              /\ UNCHANGED loginTimers
         ELSE /\ login' = "raised"
              /\ UNCHANGED <<loginTimers, initial, stateVars, vars5, vars60>>

LoginReturns(outcome) ==
    /\ login = "awaiting"
    /\ LoginFinally(LoginRetry(outcome))
    /\ UNCHANGED <<hass, setupVars, shutdownVars>>
    /\ UNCHANGED <<entities, auxVars>>

LoginTimerFires ==
    /\ loginTimers # <<>>
    /\ loginTimers' = Tail(loginTimers)
    /\ login' = "awaiting"
    /\ UNCHANGED <<hass, setupVars, initial, shutdownVars, stateVars, vars5, vars60>>
    /\ UNCHANGED <<entities, auxVars>>

\* ---------------------------------------------------------------------------
\* EVENT_HOMEASSISTANT_STARTED: fired once, when the host has started and was
\* not stopped meanwhile; the callback that listened once is run

HassStarted ==
    /\ hass = "starting"
    /\ setup # "login"
    /\ hass' = "running"
    /\ startedListener' = "none"
    /\ CASE startedListener = "_login" ->
              /\ login' = "awaiting"
              /\ UNCHANGED <<loginTimers, initial, stateVars, vars5, vars60>>
         [] startedListener = "_initial_update" ->
              /\ InitialUpdateStart
              /\ UNCHANGED loginVars
         [] OTHER ->
              UNCHANGED <<loginVars, initial, stateVars, vars5, vars60>>
    /\ UNCHANGED <<setup, stopListener, platforms, services, shutdownVars>>
    /\ UNCHANGED <<entities, auxVars>>

\* ---------------------------------------------------------------------------
\* async_refresh_state: the long-poll state loop

\* mower state numbers the API answers with: the edges of the tested ranges
StateNumbers == {257, 266, 499, 500, 799, 800}

\* a test that asks for the operating data in the states 500..799 and when
\* the mower is online, not in the states 257 and 266
NeedsOperatingDataByRange(state, on) ==
    \/ (500 <= state /\ state <= 799)
    \/ on

\* line 395
NeedsOperatingData(state, on) ==
    \/ (500 <= state /\ state <= 799)
    \/ state \in {257, 266}
    \/ on

\* the task async_shutdown awaits learns how the awaited task ended
AwaitedAfter(result) == IF awaitedTask = "pending" THEN result ELSE awaitedTask

\* the task ends by an exception: no successor is created
StateTaskRaises(exc) ==
    /\ stateTask' = [stateTask EXCEPT !.status = "raised", !.exc = exc]
    /\ awaitedTask' = AwaitedAfter("raised")

\* line 397: the successor task replaces the one that returns
StateTaskRecreated ==
    /\ stateTask' = IF CreateTask("coroutine") = "task" THEN NewStateTask(stateTask)
                    ELSE [stateTask EXCEPT !.status = "raised", !.exc = "TypeError"]
    /\ awaitedTask' = AwaitedAfter("done")

StateTaskReturns ==
    /\ stateTask' = [stateTask EXCEPT !.status = "done"]
    /\ awaitedTask' = AwaitedAfter("done")

\* _update_state returned to async_refresh_state (lines 392-399)
AfterUpdateState(state, on) ==
    IF shutdownFlag THEN StateTaskReturns
    ELSE IF NeedsOperatingData(state, on)
         THEN /\ stateTask' = [stateTask EXCEPT !.status = "opdata"]
              /\ UNCHANGED awaitedTask
         ELSE StateTaskRecreated

\* an _update_state that writes the answer whether or not the hub is shut down
UpdateStateAlways(ent, outcome, state) ==
    IF outcome = "ok" THEN SetEntities(ent, UpdateStateWrites(state)) ELSE ent

\* lines 457-490: _update_state after its long poll was answered with outcome
UpdateStateAfterLongPoll(ent, outcome, state) ==
    IF outcome = "ok" /\ ~shutdownFlag
    THEN SetEntities(ent, UpdateStateWrites(state))
    ELSE ent

\* indego.update_state(longpoll=True) answers the state task
StateUpdateReturns(outcome, state, on) ==
    /\ stateTask.status = "longpoll"
    /\ ~stateTask.cancel
    /\ IF outcome = "ok"
       THEN /\ online' = on
            /\ AfterUpdateState(state, on)
       ELSE /\ StateTaskRaises(outcome)
            /\ UNCHANGED online
    /\ entities' = UpdateStateAfterLongPoll(entities, outcome, state)
    /\ UNCHANGED <<hass, setupVars, loginVars, initial, shutdownFlag, shutdown, closed,
                   vars5, vars60, auxVars>>

\* indego.update_operating_data() answers the state task
OperatingDataReturns(outcome, on) ==
    /\ stateTask.status = "opdata"
    /\ ~stateTask.cancel
    /\ IF outcome = "ok"
       THEN /\ online' = on
            /\ StateTaskRecreated
       ELSE /\ StateTaskRaises(outcome)
            /\ UNCHANGED online
    /\ \E percent \in Answers(BatteryPercents, PercentSlots) :
           entities' = AfterUpdate(entities, outcome, OperatingDataWrites(on, percent))
    /\ UNCHANGED <<hass, setupVars, loginVars, initial, shutdownFlag, shutdown, closed,
                   vars5, vars60, auxVars>>

\* task.cancel() reaches the call the state task awaits. The client either
\* lets CancelledError through (the task ends cancelled) or catches it and
\* returns, and the coroutine goes on from its await with the data the client
\* holds.
CancelDelivered(swallowed) ==
    /\ TaskPending(stateTask)
    /\ stateTask.cancel
    /\ IF ~swallowed
       THEN /\ stateTask' = [stateTask EXCEPT !.status = "cancelled", !.exc = "CancelledError"]
            /\ awaitedTask' = AwaitedAfter("cancelled")
            /\ UNCHANGED entities
       ELSE IF stateTask.status = "longpoll"
            THEN /\ IF shutdownFlag THEN StateTaskReturns ELSE StateTaskRecreated
                 /\ \E state \in Answers(StateNumbers, StateNumberSlots) :
                        entities' = UpdateStateAfterLongPoll(entities, "ok", state)
            ELSE /\ StateTaskRecreated
                 /\ \E percent \in Answers(BatteryPercents, PercentSlots) :
                        entities' = SetEntities(entities, OperatingDataWrites(online, percent))
    /\ UNCHANGED <<hass, setupVars, loginVars, initial, shutdownFlag, shutdown, closed,
                   online, vars5, vars60, auxVars>>

\* ---------------------------------------------------------------------------
\* async_shutdown

\* lines 382-386: call the removers that are set, close the client
ShutdownFinish ==
    /\ timers5' = IF remover5 # 0 THEN CallRemover(timers5, remover5) ELSE timers5
    /\ timers60' = IF remover60 # 0 THEN CallRemover(timers60, remover60) ELSE timers60
    /\ closed' = TRUE
    /\ shutdown' = "done"

ShutdownRaises ==
    /\ shutdown' = "raised"
    /\ UNCHANGED <<closed, timers5, timers60>>

\* lines 378-381, up to the await of the state task
async_shutdown ==
    /\ shutdownFlag' = TRUE
    /\ CASE stateTask.status = "none" ->
              /\ ShutdownFinish
              /\ UNCHANGED <<stateTask, awaitedTask>>
         [] TaskPending(stateTask) ->
              /\ stateTask' = [stateTask EXCEPT !.cancel = TRUE]
              /\ shutdown' = "await_task"
              /\ awaitedTask' = "pending"
              /\ UNCHANGED <<closed, timers5, timers60>>
         [] stateTask.status = "done" ->
              /\ ShutdownFinish
              /\ awaitedTask' = "done"
              /\ UNCHANGED stateTask
         [] OTHER ->
              /\ ShutdownRaises
              /\ awaitedTask' = stateTask.status
              /\ UNCHANGED stateTask

\* EVENT_HOMEASSISTANT_STOP
HassStop ==
    /\ hass \in {"starting", "running"}
    /\ setup # "login"
    /\ hass' = "stopping"
    /\ stopListener' = FALSE
    /\ IF stopListener
       THEN async_shutdown
       ELSE UNCHANGED <<shutdownVars, stateTask, timers5, timers60>>
    /\ UNCHANGED <<setup, startedListener, platforms, services, loginVars, initial,
                   online, remover5, runs5, remover60, runs60>>
    /\ UNCHANGED <<entities, auxVars>>

\* the awaited state task has ended: async_shutdown goes on, or the await raises
ShutdownResume ==
    /\ shutdown = "await_task"
    /\ awaitedTask # "pending"
    /\ IF awaitedTask = "done" THEN ShutdownFinish ELSE ShutdownRaises
    /\ UNCHANGED <<hass, setupVars, loginVars, initial, shutdownFlag, awaitedTask,
                   stateVars, remover5, runs5, remover60, runs60>>
    /\ UNCHANGED <<entities, auxVars>>

\* ---------------------------------------------------------------------------
\* refresh_5m

\* the value gather(return_exceptions=True) stores for one update
ResultOf(outcome) == IF outcome = "ok" THEN "None" ELSE outcome

\* lines 413-424: the loop over the results, in their order; draws[i] is the
\* value random.randint gives when result i is handled
RECURSIVE NextRefreshFrom(_, _, _, _)
NextRefreshFrom(results, draws, i, next_refresh) ==
    IF i > 4 THEN next_refresh
    ELSE LET res == results[i]
             nxt == IF res # "None" /\ IsTimeout(res)
                    THEN RetryBase + draws[i]
                    ELSE next_refresh
         IN NextRefreshFrom(results, draws, i + 1, nxt)

\* a loop that starts from the retry delay instead of the regular interval
NextRefreshFromRetry(results, draws) == NextRefreshFrom(results, draws, 1, RetryBase)

NextRefresh(results, draws) == NextRefreshFrom(results, draws, 1, Refresh5mInterval)

TimeoutIndexes(results) == {i \in Updates5m : results[i] # "None" /\ IsTimeout(results[i])}

\* the four updates awaited one after the other: the first that raises ends
\* the run of them
Gathered5mUntilRaise(ent, outcomes, mode, alerts_count) ==
    LET Reached(i) == \A j \in 1..(i - 1) : outcomes[j] = "ok"
        Met(i) == IF Reached(i) THEN outcomes[i] ELSE "not awaited"
    IN AfterUpdate(
           AfterUpdate(
               AfterUpdate(
                   AfterUpdate(ent, Met(1), GenericDataWrites(mode)),
                   Met(2), AlertsWrites(alerts_count)),
               Met(3), LastCompletedMowWrites),
           Met(4), NextMowWrites)

\* lines 404-409: the table after the four gathered updates, each writing what
\* it was answered when it did not raise. Every update writes its slots in one
\* go after its await, and no two of them write the same slot.
Gathered5m(ent, outcomes, mode, alerts_count) ==
    AfterUpdate(
        AfterUpdate(
            AfterUpdate(
                AfterUpdate(ent, outcomes[1], GenericDataWrites(mode)),
                outcomes[2], AlertsWrites(alerts_count)),
            outcomes[3], LastCompletedMowWrites),
        outcomes[4], NextMowWrites)

\* gather returned the results of the four updates, each answered by the API
\* with outcomes[i]: handle the results and arm the timer for the next run
Refresh5mResume(k, outcomes, draws) ==
    /\ k \in 1..Len(runs5)
    /\ timers5' = ArmTimer(timers5, remover5,
                           NextRefresh([i \in Updates5m |-> ResultOf(outcomes[i])], draws))
    /\ remover5' = NewTimerId(timers5, remover5)
    /\ runs5' = RemoveAt(runs5, k)
    /\ initial' = InitialAfterChild(runs5[k].via, runs5', runs60)
    /\ \E mode \in Answers(MowingModes, ModeSlots),
          alerts_count \in Answers(AlertCounts, AlertCountSlots) :
           entities' = Gathered5m(entities, outcomes, mode, alerts_count)
    /\ UNCHANGED <<hass, setupVars, loginVars, shutdownVars, stateVars, vars60, auxVars>>

\* a timer that stays armed when it fires, as one that repeats does
Timer5mFiresAndStays(t) ==
    /\ t \in timers5
    /\ timers5' = timers5
    /\ runs5' = Append(runs5, NewRun5("timer"))
    /\ UNCHANGED <<hass, setupVars, loginVars, initial, shutdownVars, stateVars,
                   remover5, vars60>>
    /\ UNCHANGED <<entities, auxVars>>

\* a timer armed for refresh_5m fires
Timer5mFires(t) ==
    /\ t \in timers5
    /\ timers5' = timers5 \ {t}
    /\ runs5' = Append(runs5, NewRun5("timer"))
    /\ UNCHANGED <<hass, setupVars, loginVars, initial, shutdownVars, stateVars,
                   remover5, vars60>>
    /\ UNCHANGED <<entities, auxVars>>

\* ---------------------------------------------------------------------------
\* refresh_60m

\* indego.update_updates_available() answers a run of refresh_60m
UpdatesAvailableReturns(k, outcome) ==
    /\ k \in 1..Len(runs60)
    /\ runs60' = RemoveAt(runs60, k)
    /\ IF outcome = "ok"
       THEN /\ timers60' = ArmTimer(timers60, remover60, Refresh60mInterval)
            /\ remover60' = NewTimerId(timers60, remover60)
            /\ initial' = InitialAfterChild(runs60[k].via, runs5, runs60')
            /\ UNCHANGED runs5
       ELSE /\ UNCHANGED <<timers60, remover60>>
            /\ IF runs60[k].via = "gather" /\ initial = "gathering"
               THEN /\ initial' = "raised"
                    /\ runs5' = GatherSiblingsAfterException(runs5)
               ELSE UNCHANGED <<initial, runs5>>
    /\ \E update_available \in Answers(BOOLEAN, UpdatesAvailableSlots) :
           entities' = AfterUpdate(entities, outcome, UpdatesAvailableWrites(update_available))
    /\ UNCHANGED <<hass, setupVars, loginVars, shutdownVars, stateVars,
                   timers5, remover5, auxVars>>

\* a timer armed for refresh_60m fires
Timer60mFires(t) ==
    /\ t \in timers60
    /\ timers60' = timers60 \ {t}
    /\ runs60' = Append(runs60, NewRun60("timer"))
    /\ UNCHANGED <<hass, setupVars, loginVars, initial, shutdownVars, stateVars,
                   vars5, remover60>>
    /\ UNCHANGED <<entities, auxVars>>

\* ---------------------------------------------------------------------------
\* The services: async_send_command and async_send_smartmowing

\* the most calls of the services that are in flight together
MaxCalls == 1

CallsInFlight == sendCommand.put + sendCommand.refresh + smartMowing.put + smartMowing.refresh

\* a handler that goes on to its refresh when the put raised
AfterPutGoesOn(outcome) == "refresh"

\* lines 263-264 and 270-271: the put is awaited first; when it raises, the
\* exception ends the handler before the refresh
AfterPut(outcome) == IF outcome = "ok" THEN "refresh" ELSE "raised"

\* a call of a service: the handler awaits its put
ServiceCalled ==
    /\ services
    /\ CallsInFlight < MaxCalls

\* the put of a handler is answered
AfterPutReturns(calls, outcome) ==
    [put |-> calls.put - 1,
     refresh |-> calls.refresh + (IF AfterPut(outcome) = "refresh" THEN 1 ELSE 0)]

\* the host calls indego.command: async_send_command up to put_command
SendCommandCalled ==
    /\ ServiceCalled
    /\ sendCommand' = [sendCommand EXCEPT !.put = @ + 1]
    /\ UNCHANGED <<hass, setupVars, loginVars, initial, shutdownVars, stateVars, vars5,
                   vars60, entities, smartMowing, icon>>

\* indego.put_command(name) answers a handler, which calls _update_state
PutCommandReturns(outcome) ==
    /\ sendCommand.put > 0
    /\ sendCommand' = AfterPutReturns(sendCommand, outcome)
    /\ UNCHANGED <<hass, setupVars, loginVars, initial, shutdownVars, stateVars, vars5,
                   vars60, entities, smartMowing, icon>>

\* indego.update_state(longpoll=True) answers the _update_state of a handler
SendCommandStateReturns(outcome, state, on) ==
    /\ sendCommand.refresh > 0
    /\ sendCommand' = [sendCommand EXCEPT !.refresh = @ - 1]
    /\ online' = IF outcome = "ok" THEN on ELSE online
    /\ entities' = UpdateStateAfterLongPoll(entities, outcome, state)
    /\ UNCHANGED <<hass, setupVars, loginVars, initial, shutdownVars, stateTask, vars5,
                   vars60, smartMowing, icon>>

\* the host calls indego.smartmowing: async_send_smartmowing up to put_mow_mode
SmartMowingCalled ==
    /\ ServiceCalled
    /\ smartMowing' = [smartMowing EXCEPT !.put = @ + 1]
    /\ UNCHANGED <<hass, setupVars, loginVars, initial, shutdownVars, stateVars, vars5,
                   vars60, entities, sendCommand, icon>>

\* indego.put_mow_mode(name) answers a handler, which calls _update_generic_data
PutMowModeReturns(outcome) ==
    /\ smartMowing.put > 0
    /\ smartMowing' = AfterPutReturns(smartMowing, outcome)
    /\ UNCHANGED <<hass, setupVars, loginVars, initial, shutdownVars, stateVars, vars5,
                   vars60, entities, sendCommand, icon>>

\* indego.update_generic_data() answers the _update_generic_data of a handler
SmartMowingGenericDataReturns(outcome) ==
    /\ smartMowing.refresh > 0
    /\ smartMowing' = [smartMowing EXCEPT !.refresh = @ - 1]
    /\ \E mode \in Answers(MowingModes, ModeSlots) :
           entities' = AfterUpdate(entities, outcome, GenericDataWrites(mode))
    /\ UNCHANGED <<hass, setupVars, loginVars, initial, shutdownVars, stateVars, vars5,
                   vars60, sendCommand, icon>>

\* the steps of the two handlers
ServiceNext ==
    \/ SendCommandCalled
    \/ \E outcome \in Outcomes : PutCommandReturns(outcome)
    \/ \E outcome \in Outcomes, state \in Answers(StateNumbers, StateNumberSlots),
          on \in BOOLEAN :
           SendCommandStateReturns(outcome, state, on)
    \/ SmartMowingCalled
    \/ \E outcome \in Outcomes : PutMowModeReturns(outcome)
    \/ \E outcome \in Outcomes : SmartMowingGenericDataReturns(outcome)

\* ---------------------------------------------------------------------------
Next ==
    \/ \E outcome \in Outcomes : async_setup(outcome)
    \/ HassStarted
    \/ \E outcome \in Outcomes : LoginReturns(outcome)
    \/ LoginTimerFires
    \/ \E outcome \in Outcomes, state \in StateNumbers, on \in BOOLEAN :
           StateUpdateReturns(outcome, state, on)
    \/ \E outcome \in Outcomes, on \in BOOLEAN : OperatingDataReturns(outcome, on)
    \/ \E swallowed \in BOOLEAN : CancelDelivered(swallowed)
    \/ HassStop
    \/ ShutdownResume
    \/ \E k \in 1..Len(runs5), outcomes \in [Updates5m -> Outcomes] :
           \E draws \in [TimeoutIndexes([i \in Updates5m |-> ResultOf(outcomes[i])])
                             -> RandDraws] :
               Refresh5mResume(k, outcomes, draws)
    \/ \E t \in timers5 : Timer5mFires(t)
    \/ \E k \in 1..Len(runs60), outcome \in Outcomes : UpdatesAvailableReturns(k, outcome)
    \/ \E t \in timers60 : Timer60mFires(t)

Spec == Init /\ [][Next]_vars

\* The event loop runs every callback that is ready, every armed timer fires
\* and every API call is answered; only the stop of the host is left to the
\* environment.
Fairness ==
    /\ WF_vars(\E outcome \in Outcomes : async_setup(outcome))
    /\ WF_vars(HassStarted)
    /\ WF_vars(\E outcome \in Outcomes : LoginReturns(outcome))
    /\ WF_vars(LoginTimerFires)
    /\ WF_vars(\E outcome \in Outcomes, state \in StateNumbers, on \in BOOLEAN :
                   StateUpdateReturns(outcome, state, on))
    /\ WF_vars(\E outcome \in Outcomes, on \in BOOLEAN : OperatingDataReturns(outcome, on))
    /\ WF_vars(\E swallowed \in BOOLEAN : CancelDelivered(swallowed))
    /\ WF_vars(ShutdownResume)
    /\ WF_vars(\E k \in 1..Len(runs5), outcomes \in [Updates5m -> Outcomes] :
                   \E draws \in [TimeoutIndexes([i \in Updates5m |-> ResultOf(outcomes[i])])
                                     -> RandDraws] :
                       Refresh5mResume(k, outcomes, draws))
    /\ WF_vars(\E t \in timers5 : Timer5mFires(t))
    /\ WF_vars(\E k \in 1..Len(runs60), outcome \in Outcomes :
                   UpdatesAvailableReturns(k, outcome))
    /\ WF_vars(\E t \in timers60 : Timer60mFires(t))

FairSpec == Spec /\ Fairness

\* ---------------------------------------------------------------------------
\* The integration with its services in use

\* the steps of the hub when the login of async_setup succeeds: the API
\* answers the state loop with one of stateOutcomes and one of the states, and
\* the updates of the two batches with one of batchOutcomes
RunningNext(stateOutcomes, batchOutcomes, states) ==
    \/ async_setup("ok")
    \/ HassStarted
    \/ \E outcome \in stateOutcomes, state \in states, on \in BOOLEAN :
           StateUpdateReturns(outcome, state, on)
    \/ \E outcome \in stateOutcomes, on \in BOOLEAN : OperatingDataReturns(outcome, on)
    \/ \E swallowed \in BOOLEAN : CancelDelivered(swallowed)
    \/ HassStop
    \/ ShutdownResume
    \/ \E k \in 1..Len(runs5), answers \in [Updates5m -> batchOutcomes] :
           \E draws \in [TimeoutIndexes([i \in Updates5m |-> ResultOf(answers[i])])
                             -> RandDraws] :
               Refresh5mResume(k, answers, draws)
    \/ \E t \in timers5 : Timer5mFires(t)
    \/ \E k \in 1..Len(runs60), outcome \in batchOutcomes :
           UpdatesAvailableReturns(k, outcome)
    \/ \E t \in timers60 : Timer60mFires(t)

\* the API answers, or the request times out
OkOrTimeout == {"ok", "ServerTimeoutError"}

\* the state loop with the entities it writes, beside batches that succeed
StateLoopSlots == {"online.state", "battery.state", "mower_state_detail.state_number"}

StateLoopNext == RunningNext(OkOrTimeout, {"ok"}, StateNumbers)

StateLoopSpec == InitRecording(StateLoopSlots) /\ [][StateLoopNext]_vars

\* the mower states 266 and 800: one that asks for the operating data and one
\* that does not
TwoStates == {266, 800}

\* the services in use, with an entity each of them refreshes
ServiceSlots == {"mower_state_detail.state_number", "mowing_mode.state"}

ServicesNext == RunningNext(OkOrTimeout, {"ok"}, TwoStates) \/ ServiceNext

ServiceSpec == InitRecording(ServiceSlots) /\ [][ServicesNext]_vars

\* an answer, a timeout, an error that is no timeout
OkTimeoutOrError == {"ok", "ServerTimeoutError", "ClientResponseError"}

\* the scheduling alone, with the services in use
SchedulerNext == RunningNext(OkOrTimeout, OkTimeoutOrError, TwoStates) \/ ServiceNext

SchedulerSpec == InitRecording({}) /\ [][SchedulerNext]_vars

\* the 5-minute batch with one entity slot of each of its four updates
BatchSlots ==
    {"mower_state.model", "alert.alert_details", "last_completed.state", "next_mow.state"}

\* the answers to the four updates of a run, and what random.randint draws
\* for each timeout among them: here always its least value
BatchAnswers == [Updates5m -> OkTimeoutOrError]

BatchDraws(answers) ==
    [TimeoutIndexes([i \in Updates5m |-> ResultOf(answers[i])]) -> {0}]

\* the steps of the hub while the mower's state does not change, so that the
\* long poll of the state loop is not answered before it is cancelled, and
\* while the hourly update succeeds
BatchNext ==
    \/ async_setup("ok")
    \/ HassStarted
    \/ \E swallowed \in BOOLEAN : CancelDelivered(swallowed)
    \/ HassStop
    \/ ShutdownResume
    \/ \E k \in 1..Len(runs5), answers \in BatchAnswers :
           \E draws \in BatchDraws(answers) : Refresh5mResume(k, answers, draws)
    \/ \E t \in timers5 : Timer5mFires(t)
    \/ \E k \in 1..Len(runs60) : UpdatesAvailableReturns(k, "ok")
    \/ \E t \in timers60 : Timer60mFires(t)

BatchSpec == InitRecording(BatchSlots) /\ [][BatchNext]_vars

\* the alert entities
AlertSlots == {"mower_alert.state", "alert.state", "alert.alerts_count"}

AlertsNext == RunningNext({"ok"}, OkTimeoutOrError, TwoStates)

AlertsSpec == InitRecording(AlertSlots) /\ [][AlertsNext]_vars

\* ---------------------------------------------------------------------------
\* The icon functions alone: a call with each state, and its return

hubVars == <<hass, setupVars, loginVars, initial, shutdownVars, stateVars, vars5, vars60,
             entities, serviceVars>>

IconCalls ==
    {IconCall("FUNC_ICON_BATTERY", state) : state \in BatteryStates}
        \cup {IconCall("FUNC_ICON_MOWER_ALERT", state) : state \in AlertStates}

IconInit ==
    /\ HubInit({})
    /\ icon \in IconCalls

BatteryIconReturns ==
    /\ IconReturns("FUNC_ICON_BATTERY", FUNC_ICON_BATTERY(icon.state))
    /\ UNCHANGED hubVars

MowerAlertIconReturns ==
    /\ IconReturns("FUNC_ICON_MOWER_ALERT", FUNC_ICON_MOWER_ALERT(icon.state))
    /\ UNCHANGED hubVars

IconNext ==
    \/ BatteryIconReturns
    \/ MowerAlertIconReturns

IconSpec == IconInit /\ [][IconNext]_vars

\* ===========================================================================
\* Properties

\* async_shutdown ends in this step, by returning or by an exception
ShutdownHandlerEnds ==
    /\ shutdown \in {"idle", "await_task"}
    /\ shutdown' \in {"done", "raised"}

\* C1: whenever async_shutdown ends, it has cancelled the state task, the
\* timers its two removers refer to are no longer pending, and the API
\* client is closed.
C1_ShutdownTearsDown ==
    [][ShutdownHandlerEnds =>
          /\ closed'
          /\ ~TaskPending(stateTask) \/ stateTask.cancel
          /\ remover5 \notin TimerIds(timers5')
          /\ remover60 \notin TimerIds(timers60')]_vars

\* C2: once async_shutdown has ended, no step arms a timer for refresh_5m
\* or refresh_60m, starts a run of either, creates a state task or starts the
\* initial update.
C2_NoRefreshAfterShutdown ==
    [][(shutdown = "done" \/ shutdown = "raised") =>
          /\ timers5' \subseteq timers5
          /\ timers60' \subseteq timers60
          /\ Len(runs5') <= Len(runs5)
          /\ Len(runs60') <= Len(runs60)
          /\ stateTask'.id = stateTask.id
          /\ (initial = "none" => initial' = "none")]_vars

\* the exceptions the claims call a timeout
Timeouts == {"ServerTimeoutError", "TooManyRedirects"}

AllOk == [i \in Updates5m |-> "ok"]

\* exactly one timer was added in this step, for the given delay
ArmedOne(old, new, delay) ==
    /\ old \subseteq new
    /\ Cardinality(new \ old) = 1
    /\ \A t \in new \ old : t.delay = delay

\* refresh_state_task refers to a new task that awaits the long poll
NewLongPoll ==
    /\ stateTask'.id # stateTask.id
    /\ stateTask'.status = "longpoll"
    /\ ~stateTask'.cancel

\* the hub will never start its loops, or was told to shut down
NeverStarts ==
    \/ setup = "false"
    \/ startedListener = "_login"
    \/ login # "idle"
    \/ hass = "stopping" /\ initial = "none"

Dead60 == initial # "none" /\ runs60 = <<>> /\ timers60 = {}

\* C3 (each run): with shutdown not set, an iteration of the state loop whose
\* API calls succeed creates the next long-poll task in the same step; a run
\* of refresh_5m whose four updates succeed arms exactly one timer for 300 s;
\* a run of refresh_60m whose update succeeds arms exactly one timer for 3600 s.
C3_Rearms ==
    [][/\ (/\ ~shutdownFlag
           /\ \E state \in StateNumbers, on \in BOOLEAN :
                 /\ ~NeedsOperatingData(state, on)
                 /\ StateUpdateReturns("ok", state, on)) => NewLongPoll
       /\ (/\ ~shutdownFlag
           /\ \E on \in BOOLEAN : OperatingDataReturns("ok", on)) => NewLongPoll
       /\ (\E k \in 1..Len(runs5) : Refresh5mResume(k, AllOk, <<>>))
             => ArmedOne(timers5, timers5', 300)
       /\ (\E k \in 1..Len(runs60) : UpdatesAvailableReturns(k, "ok"))
             => ArmedOne(timers60, timers60', 3600)]_vars

\* C3 (for ever): unless the hub never starts, is shut down, or a loop is ended
\* by a failing call, the state task is replaced again and again and each
\* batch is again and again in flight and again and again waiting for its timer.
C3_RunsForEver ==
    /\ \/ <>(NeverStarts \/ shutdownFlag \/ stateTask.status = "raised")
       \/ []<>(stateTask.id = 1) /\ []<>(stateTask.id = 2)
    /\ \/ <>(NeverStarts \/ shutdownFlag)
       \/ []<>(runs5 # <<>>) /\ []<>(timers5 # {})
    /\ \/ <>(NeverStarts \/ shutdownFlag \/ Dead60)
       \/ []<>(runs60 # <<>>) /\ []<>(timers60 # {})

\* C3: the three loops re-arm after every successful run and so run for ever.
C3_PeriodicLoops == C3_Rearms /\ C3_RunsForEver

\* the loops were re-armed after successful runs
C3_Witness ==
    /\ ~shutdownFlag
    /\ stateTask.id = 2 /\ stateTask.status = "longpoll"
    /\ \E t \in timers5 : t.delay = 300
    /\ \E t \in timers60 : t.delay = 3600

\* steps of the loops, told by what they change
StateLoopFails == stateTask.status # "raised" /\ stateTask'.status = "raised"

Run5Ends == Len(runs5') < Len(runs5)

Run60Ends == Len(runs60') < Len(runs60)

Run60Fails == Run60Ends /\ timers60' = timers60

\* C4: a step in which a call of one loop raises changes nothing of the two
\* other loops; a run of refresh_5m ends only by arming its next timer, also
\* when refresh_60m raised in the same gather; and a run of refresh_5m in
\* flight always gets to arm its timer.
C4_Independent ==
    /\ [][/\ StateLoopFails => UNCHANGED <<initial, vars5, vars60>>
          /\ Run60Fails => UNCHANGED <<stateVars, vars5>>
          /\ Run5Ends => /\ UNCHANGED <<stateVars, vars60>>
                         /\ Cardinality(timers5' \ timers5) = 1]_vars
    /\ (runs5 # <<>>) ~> (timers5 # {})

\* the state loop and the 60-minute batch (in the initial gather) have failed
\* and the 5-minute batch has re-armed itself all the same
C4_Witness ==
    /\ stateTask.status = "raised"
    /\ initial = "raised"
    /\ Dead60
    /\ timers5 # {}
    /\ ~shutdownFlag

\* C5: a run of refresh_5m in which one of the four updates ended by a timeout
\* arms its timer for a delay between 60 and 90 seconds: every step that ends
\* a run either arms a 5-minute timer for such a delay or is not the end of a
\* run with a timeout among its results.
C5_TimeoutBackoff ==
    [][\/ ~Run5Ends
       \/ /\ Cardinality(timers5' \ timers5) = 1
          /\ \A t \in timers5' \ timers5 : 60 <= t.delay /\ t.delay <= 90
       \/ ~\E k \in 1..Len(runs5), outcomes \in [Updates5m -> Outcomes] :
             /\ \E i \in Updates5m : outcomes[i] \in Timeouts
             /\ \E draws \in [TimeoutIndexes([i \in Updates5m |-> ResultOf(outcomes[i])])
                                 -> RandDraws] :
                   Refresh5mResume(k, outcomes, draws)]_vars

\* a 5-minute timer armed with the longest and one with the shortest backoff
C5_Witness ==
    \E t \in timers5 : t.delay \in {RetryBase, RetryBase + RandMax}

\* C6: with shutdown not set, a timeout raised to the state loop by the state
\* update or by the operating-data update leaves the loop with a pending
\* long-poll task.
C6_StateLoopSurvivesTimeout ==
    [][(/\ ~shutdownFlag
        /\ \E outcome \in Timeouts :
              \/ \E state \in StateNumbers, on \in BOOLEAN :
                     StateUpdateReturns(outcome, state, on)
              \/ \E on \in BOOLEAN : OperatingDataReturns(outcome, on))
          => TaskPending(stateTask')]_vars

\* C7: a run of refresh_60m whose update ends by a timeout arms a timer for a
\* later run.
C7_Refresh60mSurvivesTimeout ==
    [][(\E k \in 1..Len(runs60), outcome \in Timeouts :
            UpdatesAvailableReturns(k, outcome))
          => Cardinality(timers60' \ timers60) = 1]_vars

\* C8: a timeout of the login in async_setup lets setup succeed with _login
\* waiting for the start of the host; a deferred login that times out arms
\* exactly one timer for 60 s and starts nothing; a deferred login that
\* succeeds starts the initial update and with it the three loops.
C8_LoginRetry ==
    [][/\ (\E outcome \in Timeouts : async_setup(outcome))
             => setup' = "true" /\ startedListener' = "_login"
       /\ (\E outcome \in Timeouts : LoginReturns(outcome))
             => /\ loginTimers' = Append(loginTimers, 60)
                /\ UNCHANGED <<initial, stateVars, vars5, vars60>>
       /\ LoginReturns("ok")
             => /\ initial' = "gathering"
                /\ NewLongPoll
                /\ runs5' # <<>>
                /\ runs60' # <<>>]_vars

\* nothing of the hub was started or scheduled
NothingRuns ==
    /\ initial = "none"
    /\ stateTask = NoTask
    /\ runs5 = <<>> /\ timers5 = {}
    /\ runs60 = <<>> /\ timers60 = {}

\* C9: a ClientResponseError of the login in async_setup makes it return
\* False, and after that there is no listener, no platform, no service and no
\* loop, for ever.
C9_SetupAuthFatal ==
    /\ [][async_setup("ClientResponseError") => setup' = "false"]_vars
    /\ [](setup = "false" =>
            /\ startedListener = "none" /\ ~stopListener
            /\ ~platforms /\ ~services
            /\ login = "idle" /\ loginTimers = <<>>
            /\ NothingRuns)

\* setup failed and the host has started all the same
C9_Witness == setup = "false" /\ hass = "running"

\* C10: a ClientResponseError of a deferred login arms no login timer and
\* does not start the initial update, and once _login has ended without
\* arming a timer no loop ever runs.
C10_DeferredAuthFatal ==
    /\ [][(\E outcome \in Exceptions :
              /\ IsInstance(outcome, "ClientResponseError")
              /\ LoginReturns(outcome))
            => /\ loginTimers' = <<>>
               /\ login' # "awaiting"
               /\ initial' = "none"]_vars
    /\ [](login # "idle" /\ login # "awaiting" /\ loginTimers = <<>> => NothingRuns)

\* a deferred login has ended without arming a further attempt
C10_Witness == login = "raised" /\ loginTimers = <<>> /\ hass = "running"

\* ---------------------------------------------------------------------------
\* The icon functions

\* the percentage a battery state stands for: the number, or the number its
\* digits write
Percent(state) == IF state.type = "int" THEN state.n ELSE ParseDigits(state.chars)

IsPercent(state) ==
    \/ state.type = "int" /\ state.n \in 0..FullBattery
    \/ /\ state.type = "str"
       /\ \E p \in 0..FullBattery : state.chars = str(p)

BatteryIconReturned ==
    icon.func = "FUNC_ICON_BATTERY" /\ icon.result # Return("pending")

\* C18: for every percentage p in 0..100, given as a number or as its text,
\* FUNC_ICON_BATTERY returns mdi:battery-outline for 0, mdi:battery for 100 and
\* otherwise mdi:battery-N with N = p rounded down to a multiple of 10; for a
\* missing or unknown state it returns mdi:battery-50.
C18_BatteryIcon ==
    BatteryIconReturned =>
        IF IsPercent(icon.state)
        THEN LET p == Percent(icon.state) IN
             icon.result =
                 Return(IF p = 0 THEN "mdi:battery-outline"
                        ELSE IF p = FullBattery THEN "mdi:battery"
                        ELSE "mdi:battery-" \o ToString((p \div 10) * 10))
        ELSE icon.result = Return("mdi:battery-50")

MowerAlertIconReturned ==
    icon.func = "FUNC_ICON_MOWER_ALERT" /\ icon.result # Return("pending")

IsPositiveCount(state) ==
    \/ state.type = "int" /\ state.n > 0
    \/ /\ state.type = "str"
       /\ \E n \in AlertCounts \ {0} : state.chars = str(n)

\* C19: FUNC_ICON_MOWER_ALERT never raises; it returns mdi:alert-outline
\* exactly when the state is a positive count or STATE_ON, and
\* mdi:check-circle-outline for every other state.
C19_MowerAlertIcon ==
    MowerAlertIconReturned =>
        icon.result =
            Return(IF \/ IsPositiveCount(icon.state)
                      \/ icon.state \in {STATE_ON, BoolValue(TRUE)}
                   THEN "mdi:alert-outline"
                   ELSE "mdi:check-circle-outline")

\* ---------------------------------------------------------------------------
\* The state loop and the operating data

\* the state task's long poll is answered in this step
LongPollAnswered == stateTask.status = "longpoll" /\ stateTask' # stateTask

\* the state task calls update_operating_data in this step
OperatingDataCalled == stateTask.status # "opdata" /\ stateTask'.status = "opdata"

OnlineOrBatteryChanged ==
    \/ entities'["online.state"] # entities["online.state"]
    \/ entities'["battery.state"] # entities["battery.state"]

\* C11: after the state update returned, async_refresh_state calls the
\* operating-data update exactly when the shutdown flag is not set and the
\* state number is in 500..799, or is 257 or 266, or the client is online;
\* nothing but the state loop calls it, and the online and battery entities
\* change only when a call of it is answered.
C11_OperatingDataWhenNeeded ==
    [][/\ LongPollAnswered =>
            \A outcome \in Outcomes, state \in StateNumbers, on \in BOOLEAN :
                StateUpdateReturns(outcome, state, on) =>
                    (OperatingDataCalled <=>
                        /\ outcome = "ok"
                        /\ ~shutdownFlag
                        /\ \/ state \in 500..799
                           \/ state = 257
                           \/ state = 266
                           \/ on)
       /\ OperatingDataCalled => LongPollAnswered
       /\ OnlineOrBatteryChanged => stateTask.status = "opdata"]_vars

\* the operating data were asked for in state 266 with the mower offline,
\* after an earlier answer had set the battery entity
C11_Witness ==
    /\ stateTask.status = "opdata"
    /\ entities["mower_state_detail.state_number"] = Some(266)
    /\ ~online
    /\ entities["battery.state"] # None

\* ---------------------------------------------------------------------------
\* The services

\* the handler of a service starts its refresh in this step
RefreshStarts(calls) == calls.refresh' > calls.refresh

\* the refresh of a handler is answered in this step
RefreshAnswered(calls) == calls.refresh' < calls.refresh

\* what the put of a handler that is answered with outcome leads to: the
\* refresh when it succeeded, nothing when it raised, no entity written
PutThenRefresh(calls, outcome) ==
    /\ calls.refresh' = calls.refresh + (IF outcome = "ok" THEN 1 ELSE 0)
    /\ entities' = entities

\* C12: each service sends first and refreshes afterwards: put_command, then
\* the refresh of the mower state; put_mow_mode, then the refresh of the
\* generic data. A put that raises is followed by no refresh and changes no
\* entity.
C12_SendThenRefresh ==
    [][/\ \A outcome \in Outcomes :
            PutCommandReturns(outcome) => PutThenRefresh(sendCommand, outcome)
       /\ \A outcome \in Outcomes :
            PutMowModeReturns(outcome) => PutThenRefresh(smartMowing, outcome)
       /\ RefreshStarts(sendCommand) => sendCommand.put' < sendCommand.put
       /\ RefreshStarts(smartMowing) => smartMowing.put' < smartMowing.put
       /\ sendCommand.put' > sendCommand.put \/ smartMowing.put' > smartMowing.put =>
            entities' = entities
       /\ RefreshAnswered(sendCommand) =>
            entities'["mowing_mode.state"] = entities["mowing_mode.state"]
       /\ RefreshAnswered(smartMowing) =>
            entities'["mower_state_detail.state_number"]
                = entities["mower_state_detail.state_number"]]_vars

\* a command was sent and its refresh of the mower state is awaited, the mowing
\* mode having been refreshed by a call before
C12_Witness ==
    /\ sendCommand.refresh > 0
    /\ entities["mowing_mode.state"] # None

\* the long polls of indego.update_state that are awaited
LongPollsOutstanding ==
    (IF stateTask.status = "longpoll" THEN 1 ELSE 0) + sendCommand.refresh

\* C16: at most one long-poll state request is outstanding on the client,
\* also while send-command is handled beside the state loop.
C16_OneLongPoll == LongPollsOutstanding <= 1

\* C14: when the shutdown flag is set as a long-poll state request returns,
\* _update_state changes no entity state or attribute, and async_refresh_state
\* neither refreshes the operating data nor creates a successor task.
C14_ShutdownFrame ==
    [][shutdownFlag =>
          /\ LongPollAnswered \/ RefreshAnswered(sendCommand) => entities' = entities
          /\ LongPollAnswered =>
                /\ ~OperatingDataCalled
                /\ stateTask.id' = stateTask.id
                /\ ~TaskPending(stateTask')]_vars

\* the state task returned on shutdown, the entities holding what an earlier
\* answer had set
C14_Witness ==
    /\ shutdownFlag
    /\ stateTask.status = "done"
    /\ entities["mower_state_detail.state_number"] # None

\* ---------------------------------------------------------------------------
\* The 5-minute batch and the entities

\* a recorded slot of each of the four updates, in the order of the gather
Slot5m ==
    <<"mower_state.model", "alert.alert_details", "last_completed.state", "next_mow.state">>

\* C13: every run of refresh_5m attempts all four updates, also when some of
\* them raise, and then arms exactly one timer whatever the outcomes were; when
\* no result is a timeout the delay is exactly 300.
C13_FourUpdatesOneTimer ==
    [][\/ ~Run5Ends
       \/ /\ timers5 \subseteq timers5'
          /\ Cardinality(timers5' \ timers5) = 1
          /\ \A t \in timers5' \ timers5 : t.id = remover5'
          /\ \A k \in 1..Len(runs5), answers \in BatchAnswers :
                \A draws \in BatchDraws(answers) :
                    Refresh5mResume(k, answers, draws) =>
                        /\ (\A i \in Updates5m : answers[i] \notin Timeouts) =>
                               \A t \in timers5' \ timers5 : t.delay = 300
                        /\ \A i \in Updates5m :
                               answers[i] = "ok" => entities'[Slot5m[i]] # None]_vars

\* the first update raised an error that is no timeout and the fourth wrote its
\* entity all the same; the timer is armed for 300 seconds
C13_Witness ==
    /\ entities["mower_state.model"] = None
    /\ entities["next_mow.state"] # None
    /\ \E t \in timers5 : t.delay = Refresh5mInterval /\ t.id = remover5

\* ---------------------------------------------------------------------------
\* The alert entities

\* C17: once an alerts update has completed, the alert binary sensor is on
\* exactly when the count of the mower-alert sensor is greater than 0, and the
\* attribute alerts_count equals that count, in every state the entities are
\* read in.
C17_AlertsAgree ==
    entities["mower_alert.state"] # None =>
        /\ entities["alert.state"] = Some(entities["mower_alert.state"][1] > 0)
        /\ entities["alert.alerts_count"] = entities["mower_alert.state"]

\* an alerts update found an alert: the binary sensor is on
C17_Witness ==
    /\ entities["mower_alert.state"] = Some(1)
    /\ entities["alert.state"] = Some(TRUE)

\* ---------------------------------------------------------------------------
\* The timers of the batches

\* C15: each of the two batch loops has at most one pending timer, its remover
\* is the one of the timer armed last, and it never runs twice in parallel: at
\* most one run of it is in flight, and none while its timer is pending.
C15_OneTimerPerLoop ==
    /\ Cardinality(timers5) <= 1
    /\ Cardinality(timers60) <= 1
    /\ \A t \in timers5 : t.id = remover5
    /\ \A t \in timers60 : t.id = remover60
    /\ Len(runs5) + Cardinality(timers5) <= 1
    /\ Len(runs60) + Cardinality(timers60) <= 1

\* both loops have a timer pending, the one of refresh_5m armed by a run that
\* a timer had started, while a service call is in flight
C15_Witness ==
    /\ \E t \in timers5 : t.id = 2
    /\ timers60 # {}
    /\ CallsInFlight > 0

====
